---- MODULE Spec2Model ----
(***************************************************************************)
(* Bulk student import of sgc-final (src/app.py, importar_estudiantes)     *)
(* over the tables of src/models.py.                                       *)
(*                                                                         *)
(* Text is modelled by TLA+ strings, on which Len, SubSeq and \o act as    *)
(* on sequences of characters.  A spreadsheet cell is a record             *)
(* [t |-> kind, v |-> text]: "nan" is the empty cell pandas reads as NaN,  *)
(* "str" a text cell, "int" a whole-number cell, "float" a number cell of  *)
(* a column pandas holds as float64 (v is its integer part).               *)
(*                                                                         *)
(* The database session is the Flask-SQLAlchemy default: queries           *)
(* autoflush the pending objects, a failed flush rolls the transaction     *)
(* back and leaves the session unusable until the request ends.            *)
(***************************************************************************)
EXTENDS Integers, Sequences, FiniteSets, TLC

(***************************************************************************)
(* Bounds of the model.                                                    *)
(***************************************************************************)
MaxRows == 2
MaxPosts == 2
MaxManual == 1
MaxLargo == 15

(***************************************************************************)
(* Python text operations used by the handler.                             *)
(***************************************************************************)
LowerChars == "abcdefghijklmnopqrstuvwxyz"
UpperChars == "ABCDEFGHIJKLMNOPQRSTUVWXYZ"

\* the upper-case letter of each lower-case one
UpperMap ==
  [ c \in { SubSeq(LowerChars, i, i) : i \in 1..Len(LowerChars) } |->
      LET i == CHOOSE j \in 1..Len(LowerChars) : SubSeq(LowerChars, j, j) = c
      IN SubSeq(UpperChars, i, i) ]

UpperChar(c) == IF c \in DOMAIN UpperMap THEN UpperMap[c] ELSE c

RECURSIVE Upper(_)
Upper(s) ==
  IF s = "" THEN ""
  ELSE UpperChar(SubSeq(s, 1, 1)) \o Upper(SubSeq(s, 2, Len(s)))

RECURSIVE LStrip(_)
LStrip(s) ==
  IF s # "" /\ SubSeq(s, 1, 1) = " " THEN LStrip(SubSeq(s, 2, Len(s))) ELSE s

RECURSIVE RStrip(_)
RStrip(s) ==
  IF s # "" /\ SubSeq(s, Len(s), Len(s)) = " "
  THEN RStrip(SubSeq(s, 1, Len(s) - 1)) ELSE s

Strip(s) == RStrip(LStrip(s))

\* s.split('.')[0]: the text before the first '.', all of s when it has none
RECURSIVE SplitDot0(_)
SplitDot0(s) ==
  IF s = "" \/ SubSeq(s, 1, 1) = "." THEN ""
  ELSE SubSeq(s, 1, 1) \o SplitDot0(SubSeq(s, 2, Len(s)))

\* s.endswith(suf)
EndsWith(s, suf) ==
  Len(s) >= Len(suf) /\ SubSeq(s, Len(s) - Len(suf) + 1, Len(s)) = suf

\* str(value) of a cell value
PyStr(c) ==
  CASE c.t = "nan"   -> "nan"
    [] c.t = "float" -> c.v \o ".0"
    [] OTHER         -> c.v

NaN == [t |-> "nan", v |-> ""]
S(v) == [t |-> "str", v |-> v]
N(v) == [t |-> "int", v |-> v]
F(v) == [t |-> "float", v |-> v]

\* an absent (None / NULL) value and a present one
None == << >>
Some(v) == << v >>

(***************************************************************************)
(* The reference catalogs and the student table.                           *)
(***************************************************************************)
\* AldeaUniversitaria rows (models.py): id and the unique codigo
AldeasIniciales == { [id |-> 1, codigo |-> "A001"] }
\* Carrera rows as setup_catalogos seeds them
CarrerasIniciales == { [id |-> 1, nombre |-> "INFORMATICA", tipo |-> "PNF"],
                       [id |-> 2, nombre |-> "ELECTRICIDAD", tipo |-> "PNF"] }
\* Tramo rows as setup_catalogos seeds them
TramosIniciales == { [id |-> 1, nombre |-> "TRAYECTO I"],
                     [id |-> 2, nombre |-> "TRAYECTO II"] }
\* PeriodoAcademico rows as setup_catalogos seeds them
PeriodosIniciales == { [id |-> 1, nombre |-> "2025-I"] }

\* Query.filter_by(...).first() on a table: the matching row of least id, or None
First(rows) ==
  IF rows = {} THEN None
  ELSE Some(CHOOSE x \in rows : \A y \in rows : x.id <= y.id)

\* Estudiante(...) as the declarative constructor builds it: the
\* nombre_apellido and genero setters upper-case the value and turn '' into None
SetterUpper(value) == IF value # "" THEN Some(Upper(value)) ELSE None

Estudiante(tipo_documento, numero_documento, nombre_apellido, correo, telefono, fecha_nacimiento, genero, carrera_id, aldea_id, tramo_id, periodo_id, cargado_por) ==
  [ tipo_documento   |-> tipo_documento,
    numero_documento |-> numero_documento,
    nombre_apellido  |-> SetterUpper(nombre_apellido),
    correo           |-> correo,
    telefono         |-> telefono,
    fecha_nacimiento |-> fecha_nacimiento,
    genero           |-> SetterUpper(genero),
    carrera_id       |-> carrera_id,
    aldea_id         |-> aldea_id,
    tramo_id         |-> tramo_id,
    periodo_id       |-> periodo_id,
    cargado_por      |-> cargado_por ]

(***************************************************************************)
(* The uploads the model feeds to the handler.                             *)
(***************************************************************************)
Requeridos == << "NUMERO_DOC", "NOMBRE_CARRERA", "CODIGO_ALDEA", "TRAMO", "PERIODO" >>

\* header of the downloadable template (descargar_plantilla_estudiantes)
HdrPlantilla ==
  << "TIPO_DOC", "NUMERO_DOC", "NOMBRE_APELLIDO", "GENERO", "FECHA_NACIMIENTO",
     "TELEFONO", "CORREO", "NOMBRE_CARRERA", "CODIGO_ALDEA", "TRAMO", "PERIODO" >>
\* the same columns typed by hand: other case, stray blanks
HdrSucio ==
  << "tipo_doc", " numero_doc ", "Nombre_Apellido", "genero", "fecha_nacimiento",
     "telefono ", "correo", " nombre_carrera", "codigo_aldea ", "Tramo", " periodo " >>
\* only the required columns
HdrMinimo == << "NUMERO_DOC", "NOMBRE_CARRERA", "CODIGO_ALDEA", "TRAMO", "PERIODO" >>
\* CODIGO_ALDEA left out
HdrSinAldea ==
  << "TIPO_DOC", "NUMERO_DOC", "NOMBRE_APELLIDO", "NOMBRE_CARRERA", "TRAMO", "PERIODO" >>
\* typed by hand, and CODIGO_ALDEA left out
HdrSucioSinAldea ==
  << "tipo_doc", " numero_doc ", "Nombre_Apellido", " nombre_carrera", "Tramo",
     " periodo " >>

\* a template row, as a function from the column's canonical name to its cell
Fila(tipo, doc, nombre, fecha, carrera, aldea, tramo, periodo) ==
  [ TIPO_DOC |-> tipo, NUMERO_DOC |-> doc, NOMBRE_APELLIDO |-> nombre,
    GENERO |-> S("femenino"), FECHA_NACIMIENTO |-> fecha,
    TELEFONO |-> S("04121234567"), CORREO |-> S(" ana@example.com"),
    NOMBRE_CARRERA |-> carrera, CODIGO_ALDEA |-> aldea, TRAMO |-> tramo,
    PERIODO |-> periodo ]

FilaValida(tipo, doc) ==
  Fila(tipo, doc, S("Ana Mora"), S("31/01/2000"), S("informatica"), S(" a001"),
       S("Trayecto I"), S("2025-i "))

\* rows that differ from a valid row in the catalog keys
FilasCatalogo ==
  { Fila(S("V"), N("12345678"), S("Ana Mora"), S("31/01/2000"), c, a, t, p) :
      <<c, a, t, p>> \in
        { << S("informatica"), S("Z999"), S("Trayecto I"), S("2025-i ") >>,
          << S("FILOSOFIA"), S("Z999"), S("Trayecto I"), S("2025-i ") >>,
          << S("FILOSOFIA"), S(" a001"), S("Trayecto I"), S("2025-i ") >>,
          << S("informatica"), S(" a001"), S("TRAYECTO IX"), S("2025-i ") >>,
          << S("informatica"), S(" a001"), S("Trayecto I"), S("2030-I") >>,
          << S("informatica"), NaN, S("Trayecto I"), S("2025-i ") >>,
          << S("  "), S(" a001"), S("Trayecto I"), S("2025-i ") >> } }

\* rows that differ from a valid row in the document number, its type, the
\* name or the birth date
FilaV1 == FilaValida(S("V"), N("12345678"))
FilaE1 == FilaValida(S(" e"), F("12345678"))
FilaV2 == FilaValida(S("V"), S("87654321"))
FilaSinNombre ==
  Fila(S("V"), S("87654321"), S("  "), S("31/01/2000"), S("informatica"),
       S(" a001"), S("Trayecto I"), S("2025-i "))
FilaMala ==
  Fila(S("V"), N("12345678"), S("Ana Mora"), S("31/01/2000"), S("FILOSOFIA"),
       S("Z999"), S("Trayecto I"), S("2025-i "))

\* a valid row but for a program that is not in the catalog
FilaOtraCarrera ==
  Fila(S("V"), S("11223344"), S("Ana Mora"), S("31/01/2000"), S("FILOSOFIA"),
       S(" a001"), S("Trayecto I"), S("2025-i "))

\* valid rows but for one key that is a part of a catalog key, or extends one
FilaCasiAldea ==
  Fila(S("V"), S("11223344"), S("Ana Mora"), S("31/01/2000"), S("informatica"),
       S("a00"), S("Trayecto I"), S("2025-i "))
FilaCasiCarrera ==
  Fila(S("V"), S("11223344"), S("Ana Mora"), S("31/01/2000"), S("Informatic"),
       S(" a001"), S("Trayecto I"), S("2025-i "))
FilaCasiTramo ==
  Fila(S("V"), S("11223344"), S("Ana Mora"), S("31/01/2000"), S("informatica"),
       S(" a001"), S("Trayecto"), S("2025-i "))
FilaCasiPeriodo ==
  Fila(S("V"), S("11223344"), S("Ana Mora"), S("31/01/2000"), S("informatica"),
       S(" a001"), S("Trayecto I"), S("2025-I-B"))

\* valid rows whose document number is a float, or a text with '.' in it
FilaVFloat == FilaValida(S("V"), F("12345678"))
FilaPuntos == FilaValida(S("V"), S(" 12.345.678 "))
FilaEspacioPunto == FilaValida(S("V"), S("12 .5"))
FilaSoloDecimal == FilaValida(S("V"), S(".5"))

\* a valid row whose birth-date cell holds the text "NaT"
FilaFechaNaT ==
  Fila(S("V"), S("87654321"), S("Ana Mora"), S("NaT"), S("informatica"),
       S(" a001"), S("Trayecto I"), S("2025-i "))

FilasPersona ==
  { FilaV1, FilaE1, FilaV2, FilaSinNombre,
    FilaValida(S("V"), S("   ")),
    FilaValida(S("V"), NaN),
    FilaValida(NaN, S("87654321")),
    Fila(S("V"), S("87654321"), S("Ana Mora"), S("sin fecha"), S("informatica"),
         S(" a001"), S("Trayecto I"), S("2025-i ")),
    Fila(S("V"), S("   "), S("Ana Mora"), S("31/01/2000"), S("informatica"),
         S("Z999"), S("Trayecto I"), S("2025-i ")) }

\* the rows a file may end with, and the rows that may come before the last
Filas == FilasCatalogo \cup FilasPersona
FilasPrevias == { FilaV1, FilaE1, FilaSinNombre, FilaMala }

\* the sequences of at most n members of S
RECURSIVE SeqsUpTo(_, _)
SeqsUpTo(set, n) ==
  IF n = 0 THEN { << >> }
  ELSE LET shorter == SeqsUpTo(set, n - 1)
       IN shorter \cup { Append(q, x) : q \in shorter, x \in set }

\* canonical name of a raw header, used only to lay the cells of an upload out
Canon(raw) == Upper(Strip(raw))

\* what request.files.get('archivo_excel') and pd.read_excel give the handler:
\* hay: the form carries the file; legible: pandas can parse it
Upload(filename, hdr, filas) ==
  [ hay |-> TRUE, filename |-> filename, legible |-> TRUE, columns |-> hdr,
    rows |-> [ i \in 1..Len(filas) |->
                 [ j \in 1..Len(hdr) |-> filas[i][Canon(hdr[j])] ] ] ]

SinArchivo ==
  [ hay |-> FALSE, filename |-> "", legible |-> FALSE, columns |-> << >>,
    rows |-> << >> ]

Uploads ==
  { Upload("carga.xlsx", HdrPlantilla, Append(q, x)) :
      q \in SeqsUpTo(FilasPrevias, MaxRows - 1), x \in Filas }
  \cup { Upload("carga.xlsx", h, f) :
           h \in { HdrPlantilla, HdrSucio, HdrMinimo, HdrSinAldea, HdrSucioSinAldea },
           f \in { << >>, << FilaV1 >>, << FilaV1, FilaV2 >> } }
  \cup { Upload(n, HdrPlantilla, << FilaV1 >>) : n \in { "carga.csv", "carga.XLSX" } }
  \cup { [ Upload("carga.xlsx", HdrPlantilla, << FilaV1 >>) EXCEPT !.legible = FALSE ],
         SinArchivo }

\* uploads of two clients whose requests overlap
UploadsSolapados ==
  { Upload("carga.xlsx", HdrPlantilla, f) :
      f \in { << FilaV1 >>, << FilaV1, FilaV2 >>, << FilaV2, FilaE1 >> } }

\* the uploads of the clients that share the server with catalog management
UploadsGestion ==
  { Upload("carga.xlsx", HdrPlantilla, f) : f \in { << FilaV1 >>, << FilaE1, FilaV2 >> } }

\* long uploads: n copies of one row, after a valid row or after none; and
\* the three-row file of a valid row, an unknown program and a known number
UploadsLargos ==
  { Upload("carga.xlsx", HdrPlantilla, q \o [ i \in 1..n |-> x ]) :
      q \in { << >>, << FilaV2 >> }, x \in { FilaV1, FilaMala }, n \in 0..MaxLargo }
  \cup { Upload("carga.xlsx", HdrPlantilla, << FilaV2, FilaOtraCarrera, FilaV1 >>),
         Upload("carga.xlsx", HdrPlantilla,
                << FilaCasiAldea, FilaCasiCarrera, FilaCasiTramo, FilaCasiPeriodo,
                   FilaV1 >>),
         Upload("carga.xlsx", HdrPlantilla,
                << FilaV1, FilaVFloat, FilaPuntos, FilaEspacioPunto,
                   FilaSoloDecimal >>),
         Upload("carga.xlsx", HdrPlantilla, << FilaFechaNaT, FilaV1 >>) }

(***************************************************************************)
(* State.                                                                  *)
(***************************************************************************)
Reqs == { "w1", "w2" }

VARIABLES
  dialect,      \* "sqlite" or "postgresql", from DATABASE_URL
  concurrente,  \* whether the server runs requests at the same time
  archivo,      \* the upload each client posts, per worker serving it
  aldeas, carreras, tramos, periodos,   \* committed catalog tables
  estudiantes,  \* committed rows of the estudiante table
  pc,           \* where each worker's importar_estudiantes call stands
  posts,        \* POSTs the client of each worker has still to send
  manual,       \* agregar_estudiante requests served
  df,           \* the DataFrame of the running call
  idx,          \* data rows the loop has visited
  exitos, errores,
  hist,         \* per visited row: its outcome and the queries it ran
  new,          \* db.session objects added and not yet flushed
  flushed,      \* rows INSERTed in the open transaction, not yet committed
  sess,         \* "ok", or "rota" once a flush failed in this request
  staged,       \* every student the call passed to db.session.add
  commit,       \* "no": not issued, "ok": succeeded, "error": it raised on
                \* the batch or the session, "caida": the storage failed
  flashes,      \* the messages the call flashed, in order
  antes,        \* estudiantes when the call started
  despues,      \* estudiantes when the call ended
  previa,       \* what the worker's previous call did
  sesion,       \* the Flask session of each client: user_id, user_rol
  acceso,       \* where roles_required sent the client's last refused request
  gestion       \* the answer to the last request to delete a catalog record

vars == << dialect, concurrente, archivo, aldeas, carreras, tramos, periodos,
           estudiantes, pc, posts, manual, df, idx, exitos, errores, hist, new,
           flushed, sess, staged, commit, flashes, antes, despues, previa,
           sesion, acceso, gestion >>

catalogos == << aldeas, carreras, tramos, periodos >>
\* what no step of an import or of a registration by hand changes
entorno == << dialect, concurrente, archivo, sesion, acceso, gestion >>

\* session: user_id tells whether the key is there; rol is session.get('user_rol')
Sesion(user_id, rol) == [ user_id |-> user_id, rol |-> rol ]
SesionSuper == Sesion(TRUE, Some("SUPER_USUARIO"))
\* no session, a role without a user, a user without a role, a coordinator,
\* and a super user
Sesiones ==
  { Sesion(FALSE, None), Sesion(FALSE, Some("SUPER_USUARIO")), Sesion(TRUE, None),
    Sesion(TRUE, Some("COORDINADOR")), SesionSuper }

SinGestion == [ op |-> "", id |-> 0, res |-> "" ]

SinDatos == [ columns |-> << >>, rows |-> << >> ]
SinPrevia ==
  [ hubo |-> FALSE, df |-> SinDatos, hist |-> << >>, commit |-> "no",
    completa |-> FALSE, despues |-> {} ]

InitDatos ==
  /\ dialect \in { "sqlite", "postgresql" }
  /\ aldeas = AldeasIniciales
  /\ carreras = CarrerasIniciales
  /\ tramos = TramosIniciales
  /\ periodos = PeriodosIniciales
  /\ estudiantes = {}
  /\ pc = [ r \in Reqs |-> "idle" ]
  /\ manual = 0
  /\ df = [ r \in Reqs |-> SinDatos ]
  /\ idx = [ r \in Reqs |-> 0 ]
  /\ exitos = [ r \in Reqs |-> 0 ]
  /\ errores = [ r \in Reqs |-> << >> ]
  /\ hist = [ r \in Reqs |-> << >> ]
  /\ new = [ r \in Reqs |-> {} ]
  /\ flushed = [ r \in Reqs |-> {} ]
  /\ sess = [ r \in Reqs |-> "ok" ]
  /\ staged = [ r \in Reqs |-> {} ]
  /\ commit = [ r \in Reqs |-> "no" ]
  /\ flashes = [ r \in Reqs |-> << >> ]
  /\ antes = [ r \in Reqs |-> {} ]
  /\ despues = [ r \in Reqs |-> {} ]
  /\ previa = [ r \in Reqs |-> SinPrevia ]
  /\ acceso = [ r \in Reqs |-> "" ]
  /\ gestion = SinGestion

\* every client has logged in as a super user
InitComun ==
  /\ InitDatos
  /\ sesion = [ r \in Reqs |-> SesionSuper ]

\* one client, requests served one at a time
Init ==
  /\ InitComun
  /\ concurrente = FALSE
  /\ archivo \in [ { "w1" } -> Uploads ]
  /\ posts = [ r \in Reqs |-> MaxPosts ]

\* two clients whose requests overlap
InitSolapado ==
  /\ InitComun
  /\ concurrente = TRUE
  /\ archivo \in [ Reqs -> UploadsSolapados ]
  /\ posts = [ r \in Reqs |-> 1 ]

\* one client, one long upload
InitLargo ==
  /\ InitComun
  /\ concurrente = FALSE
  /\ archivo \in [ { "w1" } -> UploadsLargos ]
  /\ posts = [ r \in Reqs |-> 1 ]

\* a client with any session that posts uploads, and a super user that
\* manages the catalogs, served one request at a time
InitGestion ==
  /\ InitDatos
  /\ sesion \in { [ w1 |-> s, w2 |-> SesionSuper ] : s \in Sesiones }
  /\ concurrente = FALSE
  /\ archivo \in [ { "w1" } -> UploadsGestion ]
  /\ posts = [ r \in Reqs |-> MaxPosts ]

Ocupado(r) == pc[r] = "filas"
PuedeEmpezar(r) == concurrente \/ \A q \in Reqs \ { r } : ~Ocupado(q)

(***************************************************************************)
(* importar_estudiantes: the file-level checks.                            *)
(***************************************************************************)
\* a header clean-up that trims the names and keeps their case
LimpiarSinMayusculas(columns) == [ j \in 1..Len(columns) |-> Strip(columns[j]) ]

\* df.columns = [str(c).strip().upper() for c in df.columns]
LimpiarCabeceras(columns) == [ j \in 1..Len(columns) |-> Upper(Strip(columns[j])) ]

\* a column check that never finds a required column missing
FaltantesNinguno(columns) == { }

\* faltantes = [col for col in requeridos if col not in df.columns]
Faltantes(columns) ==
  { Requeridos[k] : k \in { k \in 1..Len(Requeridos) :
      \A j \in 1..Len(columns) : columns[j] # Requeridos[k] } }

\* the flash that ends the call before the row loop, or None when the loop runs
ErrorDeArchivo(up) ==
  IF ~up.hay \/ ~EndsWith(up.filename, ".xlsx")
  THEN Some([ cat |-> "danger", que |-> "archivo invalido" ])
  ELSE IF ~up.legible
  THEN Some([ cat |-> "danger", que |-> "error critico" ])
  ELSE IF Faltantes(LimpiarCabeceras(up.columns)) # {}
  THEN Some([ cat |-> "danger", que |-> "faltan columnas" ])
  ELSE None

\* a gate that asks for a logged-in user and no role
AutorizadoConSesion(s, roles) == s.user_id

\* roles_required(roles): the session has a user_id and its user_rol is one
\* of the roles
Autorizado(s, roles) == s.user_id /\ s.rol # None /\ s.rol[1] \in roles

\* the roles of @roles_required(['SUPER_USUARIO'])
RolesImportar == { "SUPER_USUARIO" }

\* the refusal of roles_required: to the login page when the session has no
\* user_id, else to the index with the flash "Acceso denegado"
Denegado == [ cat |-> "danger", que |-> "acceso denegado" ]
Denegar(r) ==
  /\ r \in DOMAIN archivo
  /\ pc[r] \in { "idle", "done" }
  /\ posts[r] > 0
  /\ ~Autorizado(sesion[r], RolesImportar)
  /\ posts' = [ posts EXCEPT ![r] = @ - 1 ]
  /\ acceso' = [ acceso EXCEPT ![r] = IF sesion[r].user_id THEN "index" ELSE "login" ]
  /\ flashes' = [ flashes EXCEPT ![r] = IF sesion[r].user_id THEN << Denegado >> ELSE << >> ]
  /\ UNCHANGED << dialect, concurrente, archivo, sesion, gestion, catalogos,
                  estudiantes, pc, manual, df, idx, exitos, errores, hist, new,
                  flushed, sess, staged, commit, antes, despues, previa >>

Begin(r) ==
  /\ r \in DOMAIN archivo
  /\ Autorizado(sesion[r], RolesImportar)
  /\ pc[r] \in { "idle", "done" }
  /\ posts[r] > 0
  /\ PuedeEmpezar(r)
  /\ LET up == archivo[r]
         fatal == ErrorDeArchivo(up)
     IN /\ pc' = [ pc EXCEPT ![r] = IF fatal = None THEN "filas" ELSE "done" ]
        /\ df' = [ df EXCEPT ![r] =
                     IF fatal = None
                     THEN [ columns |-> LimpiarCabeceras(up.columns), rows |-> up.rows ]
                     ELSE SinDatos ]
        /\ flashes' = [ flashes EXCEPT ![r] = IF fatal = None THEN << >> ELSE fatal ]
  /\ previa' = [ previa EXCEPT ![r] =
                   [ hubo |-> pc[r] = "done",
                     df |-> df[r],
                     hist |-> hist[r],
                     commit |-> commit[r],
                     completa |-> /\ pc[r] = "done"
                                  /\ commit[r] = "ok"
                                  /\ Len(df[r].rows) > 0
                                  /\ exitos[r] = Len(df[r].rows),
                     despues |-> despues[r] ] ]
  /\ posts' = [ posts EXCEPT ![r] = @ - 1 ]
  /\ idx' = [ idx EXCEPT ![r] = 0 ]
  /\ exitos' = [ exitos EXCEPT ![r] = 0 ]
  /\ errores' = [ errores EXCEPT ![r] = << >> ]
  /\ hist' = [ hist EXCEPT ![r] = << >> ]
  /\ staged' = [ staged EXCEPT ![r] = {} ]
  /\ commit' = [ commit EXCEPT ![r] = "no" ]
  /\ antes' = [ antes EXCEPT ![r] = estudiantes ]
  /\ despues' = [ despues EXCEPT ![r] = estudiantes ]
  /\ UNCHANGED << entorno, catalogos, estudiantes, manual, new, flushed, sess >>

(***************************************************************************)
(* importar_estudiantes: one row of the loop.                              *)
(***************************************************************************)
\* row.get(name, default): the cell under the column, the default when the
\* DataFrame has no such column
Get(d, row, name, default) ==
  IF \E j \in 1..Len(d.columns) : d.columns[j] = name
  THEN row[CHOOSE j \in 1..Len(d.columns) :
             /\ d.columns[j] = name
             /\ \A k \in 1..(j - 1) : d.columns[k] # name]
  ELSE S(default)

HasCol(d, name) == \E j \in 1..Len(d.columns) : d.columns[j] = name

Digits == { "0", "1", "2", "3", "4", "5", "6", "7", "8", "9" }
Meses == { "01", "02", "03", "04", "05", "06", "07", "08", "09", "10", "11", "12" }

\* the texts pandas parses as the missing timestamp NaT, and NaT.date()
NatStrings == { "NaT", "nat", "NAT", "nan", "NaN", "NAN" }
NaT == Some("NaT")

\* pd.to_datetime(text).date() on a dd/mm/yyyy text: month first when the
\* first field can be a month, day first otherwise; NaT for a text that
\* names it; None when it raises
ToDate(text) ==
  IF text \in NatStrings THEN NaT
  ELSE IF /\ Len(text) = 10
     /\ SubSeq(text, 3, 3) = "/" /\ SubSeq(text, 6, 6) = "/"
     /\ \A i \in { 1, 2, 4, 5, 7, 8, 9, 10 } : SubSeq(text, i, i) \in Digits
     /\ ( SubSeq(text, 1, 2) \in Meses \/ SubSeq(text, 4, 5) \in Meses )
  THEN IF SubSeq(text, 1, 2) \in Meses
       THEN Some(SubSeq(text, 7, 10) \o "-" \o SubSeq(text, 1, 2) \o "-" \o SubSeq(text, 4, 5))
       ELSE Some(SubSeq(text, 7, 10) \o "-" \o SubSeq(text, 4, 5) \o "-" \o SubSeq(text, 1, 2))
  ELSE None

\* fecha_nac: None unless the cell is not null and parses
FechaNac(d, row) ==
  IF ~HasCol(d, "FECHA_NACIMIENTO") THEN None
  ELSE LET c == Get(d, row, "FECHA_NACIMIENTO", "")
       IN IF c.t = "nan" THEN None ELSE ToDate(PyStr(c))

\* "Leer datos limpios": the normalized fields of a row
\* a document number that is trimmed and keeps what follows a '.'
NdocSinCorte(d, row) == Strip(PyStr(Get(d, row, "NUMERO_DOC", "")))
Ndoc(d, row) == Strip(SplitDot0(PyStr(Get(d, row, "NUMERO_DOC", ""))))
TipoDoc(d, row) == Upper(Strip(PyStr(Get(d, row, "TIPO_DOC", "V"))))
Texto(d, row, name) == Upper(Strip(PyStr(Get(d, row, name, ""))))

Campos(d, row) ==
  [ ndoc     |-> Ndoc(d, row),
    tipo_doc |-> TipoDoc(d, row),
    nombre   |-> Texto(d, row, "NOMBRE_APELLIDO"),
    caldea   |-> Texto(d, row, "CODIGO_ALDEA"),
    ncarrera |-> Texto(d, row, "NOMBRE_CARRERA"),
    ntramo   |-> Texto(d, row, "TRAMO"),
    nperiodo |-> Texto(d, row, "PERIODO"),
    correo   |-> Strip(PyStr(Get(d, row, "CORREO", ""))),
    telefono |-> Strip(PyStr(Get(d, row, "TELEFONO", ""))),
    genero   |-> Texto(d, row, "GENERO"),
    fecha_nac |-> FechaNac(d, row) ]

\* "Validacion basica de campos vacios"
FaltanDatos(c) == c.ndoc = "" \/ c.caldea = "" \/ c.ncarrera = ""

\* the catalog lookups, each Query.filter_by(...).first()
BuscarAldea(caldea) == First({ a \in aldeas : a.codigo = caldea })
\* a program lookup that also takes a program whose name begins with the key
BuscarCarreraPrefijo(ncarrera) == First({ k \in carreras : Len(ncarrera) <= Len(k.nombre) /\ SubSeq(k.nombre, 1, Len(ncarrera)) = ncarrera })
BuscarCarrera(ncarrera) == First({ k \in carreras : k.nombre = ncarrera })
\* a stage lookup that takes the first stage whatever the name
BuscarTramoCualquiera(ntramo) == First(tramos)
BuscarTramo(ntramo) == First({ t \in tramos : t.nombre = ntramo })
BuscarPeriodo(nperiodo) == First({ p \in periodos : p.nombre = nperiodo })

\* a duplicate check that never finds the student
YaExisteNunca(visibles, ndoc, tipo_doc) == FALSE

\* the duplicate check of the copy of the loop that never runs, keyed on the
\* document number alone
YaExistePorNumero(visibles, ndoc, tipo_doc) == \E e \in visibles : e.numero_documento = ndoc

\* "5. Duplicidad de estudiante": filter_by(numero_documento, tipo_documento)
\* over the rows the request's connection sees
YaExiste(visibles, ndoc, tipo_doc) ==
  \E e \in visibles : e.numero_documento = ndoc /\ e.tipo_documento = tipo_doc

Rechazo(motivo, dato, consultas) ==
  [ motivo |-> motivo, dato |-> dato, consultas |-> consultas, st |-> None ]

\* the same checks with the program looked up before the village
ValidarCarreraAntes(c, visibles) ==
  LET aldea == BuscarAldea(c.caldea)
      carrera == BuscarCarrera(c.ncarrera)
      tramo == BuscarTramo(c.ntramo)
      per == BuscarPeriodo(c.nperiodo)
  IN IF carrera = None
     THEN Rechazo("carrera", c.ncarrera, << "carrera" >>)
     ELSE IF aldea = None
     THEN Rechazo("aldea", c.caldea, << "carrera", "aldea" >>)
     ELSE IF tramo = None
     THEN Rechazo("tramo", c.ntramo, << "carrera", "aldea", "tramo" >>)
     ELSE IF per = None
     THEN Rechazo("periodo", c.nperiodo, << "carrera", "aldea", "tramo", "periodo" >>)
     ELSE IF YaExiste(visibles, c.ndoc, c.tipo_doc)
     THEN Rechazo("existe", c.ndoc,
                  << "carrera", "aldea", "tramo", "periodo", "estudiante" >>)
     ELSE [ motivo |-> "ok", dato |-> c.ndoc,
            consultas |-> << "carrera", "aldea", "tramo", "periodo", "estudiante" >>,
            st |-> Some(Estudiante(c.tipo_doc, c.ndoc, c.nombre, c.correo,
                                   c.telefono, c.fecha_nac, c.genero,
                                   carrera[1].id, aldea[1].id, tramo[1].id,
                                   per[1].id, "CARGA_MASIVA")) ]

\* the checks of one row whose required fields are present, in the order of
\* the code, against the rows its queries see: the rejection, or the student
\* handed to db.session.add
Validar(c, visibles) ==
  LET aldea == BuscarAldea(c.caldea)
      carrera == BuscarCarrera(c.ncarrera)
      tramo == BuscarTramo(c.ntramo)
      per == BuscarPeriodo(c.nperiodo)
  IN IF aldea = None
     THEN Rechazo("aldea", c.caldea, << "aldea" >>)
     ELSE IF carrera = None
     THEN Rechazo("carrera", c.ncarrera, << "aldea", "carrera" >>)
     ELSE IF tramo = None
     THEN Rechazo("tramo", c.ntramo, << "aldea", "carrera", "tramo" >>)
     ELSE IF per = None
     THEN Rechazo("periodo", c.nperiodo, << "aldea", "carrera", "tramo", "periodo" >>)
     ELSE IF YaExiste(visibles, c.ndoc, c.tipo_doc)
     THEN Rechazo("existe", c.ndoc,
                  << "aldea", "carrera", "tramo", "periodo", "estudiante" >>)
     ELSE [ motivo |-> "ok", dato |-> c.ndoc,
            consultas |-> << "aldea", "carrera", "tramo", "periodo", "estudiante" >>,
            st |-> Some(Estudiante(c.tipo_doc, c.ndoc, c.nombre, c.correo,
                                   c.telefono, c.fecha_nac, c.genero,
                                   carrera[1].id, aldea[1].id, tramo[1].id,
                                   per[1].id, "CARGA_MASIVA")) ]

(***************************************************************************)
(* The session and the estudiante table's constraints.                     *)
(***************************************************************************)
\* rows the queries of r's connection see: committed ones and its own
Visibles(r) == estudiantes \cup flushed[r]
\* rows other open transactions have inserted
Ajenos(r) == UNION { flushed[q] : q \in Reqs \ { r } }

\* nullable=False of nombre_apellido, a Date column that binds calendar dates
\* alone, and the String(n) lengths PostgreSQL enforces
FilaAdmisible(e) ==
  /\ e.nombre_apellido # None
  /\ e.fecha_nacimiento # NaT
  /\ dialect = "postgresql" =>
       Len(e.tipo_documento) <= 1 /\ Len(e.numero_documento) <= 15

\* a store without the unique constraint
ChocaNunca(e, filas) == FALSE

\* unique=True of numero_documento against the rows in sight
Choca(e, filas) == \E x \in filas : x.numero_documento = e.numero_documento

\* a flush that the unique constraint never stops
FlushFallaSinUnico(r, objs) == \E e \in objs : ~FilaAdmisible(e)

\* the INSERTs of a flush of objs fail
FlushFalla(r, objs) ==
  \E e \in objs :
    \/ ~FilaAdmisible(e)
    \/ Choca(e, Visibles(r))
    \/ \E x \in objs \ { e } : x.numero_documento = e.numero_documento

\* the INSERTs of a flush of objs wait on another transaction: SQLite's writer
\* lock, or in PostgreSQL a key another open transaction has inserted
FlushEspera(r, objs) ==
  /\ objs # {}
  /\ IF dialect = "sqlite" THEN Ajenos(r) # {}
     ELSE ~FlushFalla(r, objs) /\ \E e \in objs : Choca(e, Ajenos(r))

\* a loop that leaves the last row of the file unvisited
QuedanFilasMenosUna(r) == pc[r] = "filas" /\ idx[r] < Len(df[r].rows) - 1

\* the row the loop visits next, and its spreadsheet line (linea = idx + 2)
FilaActual(r) == df[r].rows[idx[r] + 1]
Linea(r) == idx[r] + 2
QuedanFilas(r) == pc[r] = "filas" /\ idx[r] < Len(df[r].rows)

\* a run that commits whatever it counted
HayQueConfirmarSiempre(n) == TRUE

\* "if exitos > 0": the run commits when it counted a success
HayQueConfirmar(n) == n > 0

\* the next step of r runs a query or a commit, which flushes db.session.new
VaAConsultar(r) ==
  /\ pc[r] = "filas"
  /\ IF idx[r] < Len(df[r].rows)
     THEN ~FaltanDatos(Campos(df[r], FilaActual(r)))
     ELSE HayQueConfirmar(exitos[r])

Esperando(r) == VaAConsultar(r) /\ sess[r] = "ok" /\ FlushEspera(r, new[r])

\* a waiting INSERT ends in an error: SQLite's busy timeout runs out, or
\* PostgreSQL finds the two transactions waiting on each other
PuedeVencer(r) ==
  dialect = "sqlite" \/ \E q \in Reqs \ { r } : Esperando(q)

\* a session that forgets the rollback of an earlier failed flush
AutoflushSinRota(r) ==
  IF new[r] = {} THEN "ok"
  ELSE IF FlushEspera(r, new[r]) THEN "espera"
  ELSE IF FlushFalla(r, new[r]) THEN "falla"
  ELSE "ok"

\* the autoflush before a query, or the flush of a commit:
\* "rota": the session's transaction was rolled back by an earlier failure;
\* "espera": the INSERT waits; "falla": it raises; "ok": it is done
Autoflush(r) ==
  IF sess[r] = "rota" THEN "rota"
  ELSE IF new[r] = {} THEN "ok"
  ELSE IF FlushEspera(r, new[r]) THEN "espera"
  ELSE IF FlushFalla(r, new[r]) THEN "falla"
  ELSE "ok"

Diagnostico(linea, motivo, dato) == [ linea |-> linea, motivo |-> motivo, dato |-> dato ]

\* lookups that create the village a row names when the catalog lacks it
CrearSiFalta(c) ==
  /\ aldeas' = IF c.caldea # "" /\ BuscarAldea(c.caldea) = None
               THEN aldeas \cup { [ id |-> Cardinality(aldeas) + 1, codigo |-> c.caldea ] }
               ELSE aldeas
  /\ UNCHANGED << carreras, tramos, periodos >>

\* what the lookups of a row with the fields c do to the catalogs: they are
\* Query.first() calls, and nothing but the new student is added to the session
SoloConsulta(c) == UNCHANGED catalogos

\* for idx, row in df.iterrows(): one pass of the loop body
ProcessRow(r) ==
  /\ QuedanFilas(r)
  /\ LET c == Campos(df[r], FilaActual(r))
         af == Autoflush(r)
     IN IF FaltanDatos(c)
        THEN /\ errores' = [ errores EXCEPT ![r] =
                               Append(@, Diagnostico(Linea(r), "faltan", "")) ]
             /\ hist' = [ hist EXCEPT ![r] =
                            Append(@, [ motivo |-> "faltan", consultas |-> << >> ]) ]
             /\ UNCHANGED << new, flushed, sess, exitos, staged >>
        ELSE IF af = "ok"
        THEN LET res == Validar(c, Visibles(r) \cup new[r])
             IN /\ flushed' = [ flushed EXCEPT ![r] = @ \cup new[r] ]
                /\ hist' = [ hist EXCEPT ![r] =
                               Append(@, [ motivo |-> res.motivo,
                                           consultas |-> res.consultas ]) ]
                /\ IF res.st = None
                   THEN /\ errores' = [ errores EXCEPT ![r] =
                              Append(@, Diagnostico(Linea(r), res.motivo, res.dato)) ]
                        /\ new' = [ new EXCEPT ![r] = {} ]
                        /\ UNCHANGED << exitos, staged >>
                   ELSE /\ new' = [ new EXCEPT ![r] = { res.st[1] } ]
                        /\ staged' = [ staged EXCEPT ![r] = @ \cup { res.st[1] } ]
                        /\ exitos' = [ exitos EXCEPT ![r] = @ + 1 ]
                        /\ UNCHANGED errores
                /\ UNCHANGED sess
        ELSE \* the first query raises: except Exception as e
             /\ af = "espera" => PuedeVencer(r)
             /\ errores' = [ errores EXCEPT ![r] =
                               Append(@, Diagnostico(Linea(r), "interno", af)) ]
             /\ hist' = [ hist EXCEPT ![r] =
                            Append(@, [ motivo |-> "interno",
                                        consultas |-> << "aldea" >> ]) ]
             /\ new' = [ new EXCEPT ![r] = {} ]
             /\ flushed' = [ flushed EXCEPT ![r] = {} ]
             /\ sess' = [ sess EXCEPT ![r] = "rota" ]
             /\ UNCHANGED << exitos, staged >>
  /\ idx' = [ idx EXCEPT ![r] = @ + 1 ]
  /\ SoloConsulta(Campos(df[r], FilaActual(r)))
  /\ UNCHANGED << entorno, estudiantes, pc, posts, manual, df, commit,
                  flashes, antes, despues, previa >>

(***************************************************************************)
(* importar_estudiantes: the commit and the report.                        *)
(***************************************************************************)
\* a warning flash that lists every diagnostic
AvisoSinCorte(errs) ==
  [ cat |-> "warning", que |-> "errores", total |-> Len(errs), lista |-> errs,
    mas |-> 0 ]

\* the warning flash: the count, the first 10 diagnostics, the overflow
Aviso(errs) ==
  [ cat |-> "warning", que |-> "errores", total |-> Len(errs),
    lista |-> SubSeq(errs, 1, IF Len(errs) > 10 THEN 10 ELSE Len(errs)),
    mas |-> IF Len(errs) > 10 THEN Len(errs) - 10 ELSE 0 ]

Exito(n) == [ cat |-> "success", que |-> "registrados", n |-> n ]
Critico == [ cat |-> "danger", que |-> "error critico" ]

\* a report that ignores the failure of the commit
InformeSinCritico(n, errs, ok) ==
  (IF n > 0 THEN << Exito(n) >> ELSE << >>)
  \o (IF errs # << >> THEN << Aviso(errs) >> ELSE << >>)

\* the flashes of a call whose loop ended: ok tells whether no commit raised
Informe(n, errs, ok) ==
  IF ~ok THEN << Critico >>
  ELSE (IF n > 0 THEN << Exito(n) >> ELSE << >>)
       \o (IF errs # << >> THEN << Aviso(errs) >> ELSE << >>)

\* a commit that leaves in the table only the rows it inserts
ConfirmarSoloNuevos(filas, nuevos) == nuevos

\* db.session.commit() of a session that holds only added students: the
\* table after their INSERTs
Confirmar(filas, nuevos) == filas \cup nuevos

\* "Confirmar cambios si hubo exitos", the report, and the end of the request,
\* where the session is removed.  falla: the storage fails at the commit for
\* a reason outside the program
Finish(r) ==
  /\ pc[r] = "filas" /\ idx[r] = Len(df[r].rows)
  /\ \E falla \in BOOLEAN :
       LET af == Autoflush(r)
           intenta == HayQueConfirmar(exitos[r])
           raises == intenta /\ (falla \/ af # "ok")
       IN /\ falla => intenta /\ af = "ok"
          /\ (intenta /\ af = "espera") => PuedeVencer(r)
          /\ commit' = [ commit EXCEPT ![r] =
                           IF ~intenta THEN "no"
                           ELSE IF falla THEN "caida"
                           ELSE IF raises THEN "error" ELSE "ok" ]
          /\ estudiantes' = IF intenta /\ ~raises
                            THEN Confirmar(estudiantes, flushed[r] \cup new[r])
                            ELSE estudiantes
          /\ flashes' = [ flashes EXCEPT ![r] = Informe(exitos[r], errores[r], ~raises) ]
          /\ despues' = [ despues EXCEPT ![r] = estudiantes' ]
  /\ pc' = [ pc EXCEPT ![r] = "done" ]
  /\ new' = [ new EXCEPT ![r] = {} ]
  /\ flushed' = [ flushed EXCEPT ![r] = {} ]
  /\ sess' = [ sess EXCEPT ![r] = "ok" ]
  /\ UNCHANGED << entorno, catalogos, posts, manual, df, idx, exitos, errores,
                  hist, staged, antes, previa >>

(***************************************************************************)
(* agregar_estudiante: a student registered by hand.                       *)
(***************************************************************************)
Formularios ==
  { Estudiante(t, "12345678", "Luis Paz", "", "", None, "MASCULINO", 1, 1, 1, 1,
               "USUARIO") : t \in { "V", "E" } }

\* db.session.add(nuevo); db.session.commit(), rolled back when it raises
AgregarEstudiante ==
  /\ manual < MaxManual
  /\ concurrente \/ \A q \in Reqs : ~Ocupado(q)
  /\ \E nuevo \in Formularios :
       /\ IF dialect = "sqlite" THEN Ajenos("") = {}
          ELSE ~Choca(nuevo, Ajenos(""))
       /\ estudiantes' =
            IF FilaAdmisible(nuevo) /\ ~Choca(nuevo, estudiantes)
            THEN estudiantes \cup { nuevo } ELSE estudiantes
  /\ manual' = manual + 1
  /\ UNCHANGED << entorno, catalogos, pc, posts, df, idx, exitos, errores, hist,
                  new, flushed, sess, staged, commit, flashes, antes, despues,
                  previa >>

(***************************************************************************)
(* eliminar_tramo, eliminar_periodo, eliminar_aldea: the deletion of a       *)
(* catalog record, asked by a super user while no import runs.             *)
(***************************************************************************)
\* the ids a request may name: those seeded and one that no record has
IdsPedidos == { 1, 2, 9 }

\* a check that finds no record in use
TramoEnUsoNunca(id) == FALSE

\* tramo.estudiantes, periodo.estudiantes, aldea.estudiantes: the students
\* whose foreign key is the id
TramoEnUso(id) == \E e \in estudiantes : e.tramo_id = id
PeriodoEnUso(id) == \E e \in estudiantes : e.periodo_id = id
AldeaEnUso(id) == \E e \in estudiantes : e.aldea_id = id

PuedeGestionar ==
  /\ \A q \in Reqs : ~Ocupado(q)
  /\ \E r \in Reqs : Autorizado(sesion[r], { "SUPER_USUARIO" })

\* get_or_404, the check of use, and delete and commit; falla: the storage
\* fails at the commit
Respuesta(op, id, hay, uso, falla) ==
  [ op |-> op, id |-> id,
    res |-> IF ~hay THEN "404" ELSE IF uso THEN "en uso"
            ELSE IF falla THEN "error" ELSE "eliminado" ]

EliminarTramo(id) ==
  /\ PuedeGestionar
  /\ \E falla \in BOOLEAN :
       LET hay == \E t \in tramos : t.id = id
           rp == Respuesta("tramo", id, hay, TramoEnUso(id), falla)
       IN /\ gestion' = rp
          /\ tramos' = IF rp.res = "eliminado" THEN { t \in tramos : t.id # id } ELSE tramos
  /\ UNCHANGED << dialect, concurrente, archivo, sesion, acceso, aldeas, carreras,
                  periodos, estudiantes, pc, posts, manual, df, idx, exitos,
                  errores, hist, new, flushed, sess, staged, commit, flashes,
                  antes, despues, previa >>

EliminarPeriodo(id) ==
  /\ PuedeGestionar
  /\ \E falla \in BOOLEAN :
       LET hay == \E x \in periodos : x.id = id
           rp == Respuesta("periodo", id, hay, PeriodoEnUso(id), falla)
       IN /\ gestion' = rp
          /\ periodos' = IF rp.res = "eliminado" THEN { x \in periodos : x.id # id } ELSE periodos
  /\ UNCHANGED << dialect, concurrente, archivo, sesion, acceso, aldeas, carreras,
                  tramos, estudiantes, pc, posts, manual, df, idx, exitos,
                  errores, hist, new, flushed, sess, staged, commit, flashes,
                  antes, despues, previa >>

\* conPersonal: aldea.personal is not empty
EliminarAldea(id) ==
  /\ PuedeGestionar
  /\ \E falla \in BOOLEAN, conPersonal \in BOOLEAN :
       LET hay == \E a \in aldeas : a.id = id
           rp == Respuesta("aldea", id, hay, AldeaEnUso(id) \/ conPersonal, falla)
       IN /\ gestion' = rp
          /\ aldeas' = IF rp.res = "eliminado" THEN { a \in aldeas : a.id # id } ELSE aldeas
  /\ UNCHANGED << dialect, concurrente, archivo, sesion, acceso, carreras, tramos,
                  periodos, estudiantes, pc, posts, manual, df, idx, exitos,
                  errores, hist, new, flushed, sess, staged, commit, flashes,
                  antes, despues, previa >>

\* imports, refused or served, and deletions of catalog records
NextGestion ==
  \/ \E r \in Reqs : Denegar(r)
  \/ \E r \in Reqs : Begin(r)
  \/ \E r \in Reqs : ProcessRow(r)
  \/ \E r \in Reqs : Finish(r)
  \/ \E id \in IdsPedidos : EliminarTramo(id)
  \/ \E id \in IdsPedidos : EliminarPeriodo(id)
  \/ \E id \in IdsPedidos : EliminarAldea(id)

SpecGestion == InitGestion /\ [][NextGestion]_vars

Next ==
  \/ \E r \in Reqs : Begin(r)
  \/ \E r \in Reqs : ProcessRow(r)
  \/ \E r \in Reqs : Finish(r)
  \/ AgregarEstudiante

Spec == Init /\ [][Next]_vars
SpecSolapado == InitSolapado /\ [][Next]_vars

SpecLargo == InitLargo /\ [][Next]_vars

\* one client whose request, once begun, runs on: the handler is sequential
\* code, so a row that can be visited is visited and a loop that ended is
\* followed by the commit and the report.  The weak fairness of ProcessRow(r)
\* is written out with the guard of the step, QuedanFilas(r), which is when
\* the step of a lone client is enabled
SpecLargoJusto ==
  /\ InitLargo /\ [][Next]_vars
  /\ \A r \in Reqs : WF_vars(Finish(r))
  /\ \A r \in Reqs : []<>(~QuedanFilas(r)) \/ []<><<ProcessRow(r)>>_vars

\* both starts together: one client, or two clients that overlap
SpecTodo == (Init \/ InitSolapado) /\ [][Next]_vars

(***************************************************************************)
(* Properties.                                                             *)
(***************************************************************************)
\* the normalized fields of the i-th data row of the call r runs or ran
CamposDe(r, i) == Campos(df[r], df[r].rows[i])
\* the diagnostics the call recorded for its i-th data row (line i + 1)
DiagnosticosDe(r, i) ==
  { k \in 1..Len(errores[r]) : errores[r][k].linea = i + 1 }

\* the rows the call accepted and handed to db.session.add
Aceptadas(r) == { i \in 1..Len(hist[r]) : hist[r][i].motivo = "ok" }

\* the first check a row fails among those that read the row and the
\* catalogs alone, in the order of section 4.2; "ninguno" when it passes all
PrimerFallo(c) ==
  IF FaltanDatos(c) THEN "faltan"
  ELSE IF BuscarAldea(c.caldea) = None THEN "aldea"
  ELSE IF BuscarCarrera(c.ncarrera) = None THEN "carrera"
  ELSE IF BuscarTramo(c.ntramo) = None THEN "tramo"
  ELSE IF BuscarPeriodo(c.nperiodo) = None THEN "periodo"
  ELSE "ninguno"

\* C1: every visited row that fails a check carries the diagnostic of the
\* first check it fails, in the order required fields, village, program,
\* stage, period, duplicate; a row that passes the first five and is still
\* rejected is rejected as a duplicate.
C1_PrimerFalloDecide ==
  \A r \in Reqs : \A i \in 1..Len(hist[r]) :
    LET c == CamposDe(r, i)
        m == hist[r][i].motivo
    IN /\ PrimerFallo(c) # "ninguno" =>
            /\ m = PrimerFallo(c)
            /\ \A k \in DiagnosticosDe(r, i) : errores[r][k].motivo = PrimerFallo(c)
       /\ (PrimerFallo(c) = "ninguno" /\ m # "ok") => m = "existe"

\* a cell that is absent, empty or only blanks
CeldaVacia(cell) == cell.t = "nan" \/ (cell.t = "str" /\ Strip(cell.v) = "")
FaltaCelda(d, row) ==
  \E name \in { "NUMERO_DOC", "CODIGO_ALDEA", "NOMBRE_CARRERA" } :
    CeldaVacia(Get(d, row, name, ""))

\* C2: every visited row with an absent, empty or blank document number,
\* village code or program name is rejected as "missing required fields"
\* and runs no lookup at all.
C2_VaciosSinConsulta ==
  \A r \in Reqs : \A i \in 1..Len(hist[r]) :
    FaltaCelda(df[r], df[r].rows[i]) =>
      /\ hist[r][i] = [ motivo |-> "faltan", consultas |-> << >> ]
      /\ \A k \in DiagnosticosDe(r, i) : errores[r][k].motivo = "faltan"

C4_DuplicadoPorNumero ==
  \A r \in Reqs : \A i \in 1..Len(hist[r]) :
    LET c == CamposDe(r, i)
    IN (PrimerFallo(c) = "ninguno"
        /\ \E e \in antes[r] : e.numero_documento = c.ndoc) =>
         /\ hist[r][i].motivo = "existe"
         /\ \A st \in staged[r] : st.numero_documento # c.ndoc

\* C5: a second run of a file whose first run committed every row stages
\* nothing, rejects every row as already existing, issues no commit and
\* leaves the store as it found it; and any row an earlier run of the same
\* file committed is rejected as already existing by the later run.
C5_ReintentoIdempotente ==
  \A r \in Reqs :
    (previa[r].hubo /\ pc[r] \in { "filas", "done" } /\ previa[r].df = df[r]) =>
      /\ previa[r].commit = "ok" =>
           \A i \in 1..Len(hist[r]) :
             previa[r].hist[i].motivo = "ok" =>
               /\ hist[r][i].motivo = "existe"
               /\ \A k \in DiagnosticosDe(r, i) :
                    errores[r][k] = Diagnostico(i + 1, "existe", CamposDe(r, i).ndoc)
      /\ previa[r].completa =>
           /\ exitos[r] = 0 /\ staged[r] = {} /\ new[r] = {}
           /\ commit[r] = "no"
           /\ Len(errores[r]) = Len(hist[r])
           /\ pc[r] = "filas" => estudiantes = antes[r]
           /\ pc[r] = "done" =>
                /\ Len(hist[r]) = Len(df[r].rows)
                /\ despues[r] = antes[r]
                /\ \A k \in 1..Len(flashes[r]) : flashes[r][k].cat = "warning"

\* C5 witness: the second run of a two-row file has ended, against the store
\* its fully successful first run left.
C5_Testigo ==
  \E r \in Reqs :
    /\ pc[r] = "done" /\ previa[r].completa
    /\ antes[r] = previa[r].despues
    /\ Len(df[r].rows) = 2 /\ Len(errores[r]) = 2

\* a staged student whose INSERT nothing stands against: it satisfies the
\* columns' constraints and its number is neither in the store nor staged twice
Buena(r, e) ==
  /\ FilaAdmisible(e)
  /\ ~Choca(e, antes[r])
  /\ \A x \in staged[r] \ { e } : x.numero_documento # e.numero_documento

\* C6: a row's failure stays with the row: every row of a file that passed
\* the file checks is visited, each rejected row leaves exactly one
\* diagnostic, and unless the storage itself fails at the commit, the rows
\* that passed validation are in the store when the run ends.
C6_FalloNoAborta ==
  \A r \in Reqs :
    (pc[r] = "done" /\ commit[r] # "caida") =>
      /\ Len(hist[r]) = Len(df[r].rows)
      /\ \A i \in 1..Len(hist[r]) :
           Cardinality(DiagnosticosDe(r, i)) = IF i \in Aceptadas(r) THEN 0 ELSE 1
      /\ \A e \in staged[r] : Buena(r, e) => e \in despues[r]

\* the file-level failures of section 4.1, read off the upload
ArchivoFatal(up) ==
  \/ ~up.hay
  \/ ~EndsWith(up.filename, ".xlsx")
  \/ \E k \in 1..Len(Requeridos) :
       \A j \in 1..Len(up.columns) : Canon(up.columns[j]) # Requeridos[k]

\* C7: a call whose upload is absent, is not named *.xlsx or lacks a
\* required column visits no row, stages nothing, issues no commit and
\* leaves the store unchanged, with one error flash.
C7_ArchivoFatal ==
  \A r \in DOMAIN archivo :
    ArchivoFatal(archivo[r]) =>
      /\ pc[r] # "filas"
      /\ idx[r] = 0 /\ hist[r] = << >> /\ errores[r] = << >>
      /\ staged[r] = {} /\ new[r] = {} /\ flushed[r] = {}
      /\ commit[r] = "no"
      /\ pc[r] = "done" =>
           /\ despues[r] = antes[r]
           /\ Len(flashes[r]) = 1 /\ flashes[r][1].cat = "danger"

\* C7 witness: a call has ended on a file that has data rows and whose header
\* lacks only CODIGO_ALDEA.
C7_Testigo ==
  \E r \in DOMAIN archivo :
    /\ pc[r] = "done"
    /\ Len(archivo[r].rows) > 0
    /\ archivo[r].hay /\ EndsWith(archivo[r].filename, ".xlsx")
    /\ Faltantes(LimpiarCabeceras(archivo[r].columns)) = { "CODIGO_ALDEA" }

\* C8: a run whose commit raised reports no success and exactly one flash,
\* the critical one, and leaves the store as it found it, with none of its
\* staged students in it.
C8_CommitFallido ==
  \A r \in Reqs :
    (pc[r] = "done" /\ commit[r] \in { "error", "caida" }) =>
      /\ exitos[r] >= 1 /\ staged[r] # {}
      /\ flashes[r] = << Critico >>
      /\ despues[r] = antes[r]
      /\ staged[r] \cap despues[r] = {}

\* C8 witness: the storage failed at the commit of a run that had staged two
\* students, both fit to be inserted.
C8_Testigo ==
  \E r \in Reqs :
    /\ pc[r] = "done" /\ commit[r] = "caida"
    /\ Cardinality(staged[r]) = 2
    /\ \A e \in staged[r] : Buena(r, e)

\* C9: the step that ends a run adds to the store nothing or exactly the
\* students the run staged; a success flash reports the number added, and
\* students are added only with a success flash.
C9_TodoONada ==
  [][ \A r \in Reqs :
        (pc[r] = "filas" /\ pc'[r] = "done") =>
          LET added == estudiantes' \ estudiantes
              ok == { k \in 1..Len(flashes'[r]) : flashes'[r][k].cat = "success" }
          IN /\ added = {} \/ added = staged[r]
             /\ \A k \in ok : flashes'[r][k].n = Cardinality(added)
             /\ added # {} => ok # {} ]_vars

\* C9 witness: a run that rejected one row and staged another has ended with
\* the staged student added.
C9_Testigo ==
  \E r \in Reqs :
    /\ pc[r] = "done" /\ commit[r] = "ok"
    /\ errores[r] # << >>
    /\ despues[r] \ antes[r] = staged[r] /\ staged[r] # {}

\* C10: no two students in the store have the same document number.
C10_NumeroUnico ==
  \A a, b \in estudiantes : a.numero_documento = b.numero_documento => a = b

\* C10 witness: a run staged a student whose number is in the store under
\* another document type, and its commit was refused.
C10_Testigo ==
  \E r \in Reqs :
    /\ pc[r] = "done" /\ commit[r] = "error"
    /\ \E st \in staged[r] : \E e \in estudiantes :
         /\ e.numero_documento = st.numero_documento
         /\ e.tipo_documento # st.tipo_documento

\* the document numbers of a set of students
Numeros(filas) == { e.numero_documento : e \in filas }
\* the students registered by hand
AMano == { e \in estudiantes : e.cargado_por = "USUARIO" }
\* the numbers both calls staged that were in the store when neither began
Disputados(r, q) ==
  (Numeros(staged[r]) \cap Numeros(staged[q])) \ Numeros(antes[r] \cup antes[q])

Avisos(r) == { k \in 1..Len(flashes[r]) : flashes[r][k].cat = "warning" }

\* C12: the error report of a run lists the first min(k, 10) of its k
\* diagnostics in row order under the headline count k, and carries the
\* overflow count k - 10 exactly when k > 10; a run whose commit did not
\* raise shows this report exactly when k > 0.
C12_DiezPrimeros ==
  \A r \in Reqs :
    pc[r] = "done" =>
      LET k == Len(errores[r])
      IN /\ \A i, j \in 1..k : i < j => errores[r][i].linea < errores[r][j].linea
         /\ \A a \in Avisos(r) :
              LET f == flashes[r][a]
              IN /\ a = Len(flashes[r])
                 /\ f.total = k /\ k > 0
                 /\ Len(f.lista) = (IF k < 10 THEN k ELSE 10)
                 /\ \A i \in 1..Len(f.lista) : f.lista[i] = errores[r][i]
                 /\ f.mas = (IF k > 10 THEN k - 10 ELSE 0)
         /\ (commit[r] \in { "no", "ok" } /\ k > 0) => Cardinality(Avisos(r)) = 1

\* C12 witness: a run with 15 rejected rows has shown 10 diagnostics and
\* "5 more".
C12_Testigo ==
  \E r \in Reqs :
    /\ pc[r] = "done" /\ Len(errores[r]) = 15
    /\ \E a \in Avisos(r) :
         Len(flashes[r][a].lista) = 10 /\ flashes[r][a].mas = 5

\* a three-row file, as the call found it: row 1 valid and new, row 2 naming
\* a program that is not in the catalog, row 3 valid with the document number
\* of a student already in the store
TresFilas(r) ==
  /\ Len(df[r].rows) = 3
  /\ PrimerFallo(CamposDe(r, 1)) = "ninguno"
  /\ CamposDe(r, 1).nombre # ""
  /\ CamposDe(r, 1).ndoc \notin Numeros(antes[r])
  /\ PrimerFallo(CamposDe(r, 2)) = "carrera"
  /\ PrimerFallo(CamposDe(r, 3)) = "ninguno"
  /\ CamposDe(r, 3).ndoc \in Numeros(antes[r])

\* C13: the k-th diagnostic of a run belongs to its k-th rejected row and
\* carries that row's line, its 1-based position plus 1; and the run of such
\* a three-row file counts 1 success and records exactly the diagnostics
\* "program not in catalog" at line 3 and "already exists" at line 4.
C13_LineaDeFila ==
  \A r \in Reqs :
    /\ \A k \in 1..Len(errores[r]) :
         \E i \in 1..Len(hist[r]) :
           /\ errores[r][k].linea = i + 1
           /\ hist[r][i].motivo # "ok"
           /\ Cardinality({ j \in 1..i : hist[r][j].motivo # "ok" }) = k
    /\ (pc[r] = "done" /\ TresFilas(r)) =>
         /\ exitos[r] = 1
         /\ errores[r] = << Diagnostico(3, "carrera", CamposDe(r, 2).ncarrera),
                            Diagnostico(4, "existe", CamposDe(r, 3).ndoc) >>

\* the frame read_excel gives for an upload, headers cleaned
DatosDe(up) == [ columns |-> LimpiarCabeceras(up.columns), rows |-> up.rows ]

\* e is the student of a row with the fields c: its number and type, the
\* bulk-import tag, and the catalog entries whose keys the row names
DeLaFila(e, c) ==
  /\ e.numero_documento = c.ndoc /\ e.tipo_documento = c.tipo_doc
  /\ e.cargado_por = "CARGA_MASIVA"
  /\ \E a \in aldeas : a.id = e.aldea_id /\ a.codigo = c.caldea
  /\ \E k \in carreras : k.id = e.carrera_id /\ k.nombre = c.ncarrera
  /\ \E t \in tramos : t.id = e.tramo_id /\ t.nombre = c.ntramo
  /\ \E p \in periodos : p.id = e.periodo_id /\ p.nombre = c.nperiodo

\* C14: the staged students of a run are, one for one, the rows it accepted;
\* an accepted row ran the four lookups and the duplicate query, which found
\* no student of its number and type; its student refers to the village,
\* program, stage and period the row names and carries the bulk-import tag;
\* and every bulk-imported student in the store is such a student of a row
\* of an upload.
C14_SoloFilasResueltas ==
  /\ \A r \in Reqs :
       /\ Cardinality(staged[r]) = Cardinality(Aceptadas(r))
       /\ exitos[r] = Cardinality(Aceptadas(r))
       /\ \A i \in Aceptadas(r) :
            /\ hist[r][i].consultas =
                 << "aldea", "carrera", "tramo", "periodo", "estudiante" >>
            /\ \E e \in staged[r] : DeLaFila(e, CamposDe(r, i))
            /\ \A x \in antes[r] :
                 ~(x.numero_documento = CamposDe(r, i).ndoc
                   /\ x.tipo_documento = CamposDe(r, i).tipo_doc)
       /\ \A e \in staged[r] \cup new[r] \cup flushed[r] :
            \E i \in Aceptadas(r) : DeLaFila(e, CamposDe(r, i))
  /\ \A e \in estudiantes :
       e.cargado_por = "CARGA_MASIVA" =>
         \E r \in DOMAIN archivo : \E i \in 1..Len(archivo[r].rows) :
           DeLaFila(e, Campos(DatosDe(archivo[r]), archivo[r].rows[i]))

\* C14 witness: a run has committed the student of one row and rejected
\* another row at its stage, period or duplicate check, after earlier
\* lookups of that row had succeeded.
C14_Testigo ==
  \E r \in Reqs :
    /\ pc[r] = "done" /\ commit[r] = "ok" /\ staged[r] \subseteq estudiantes
    /\ Aceptadas(r) # {}
    /\ \E i \in 1..Len(hist[r]) : hist[r][i].motivo \in { "tramo", "periodo", "existe" }

\* C15: no step of an import run (its file checks, a row, its commit and
\* report) adds, changes or removes a village, program, stage or period.
C15_CatalogosIntactos ==
  [][ (\E r \in Reqs : pc'[r] # pc[r] \/ idx'[r] # idx[r]) =>
        /\ aldeas' = aldeas /\ carreras' = carreras
        /\ tramos' = tramos /\ periodos' = periodos ]_vars

\* C15 witness: a run that named a village and a program the catalogs lack
\* has ended, the catalogs being what they were at the start.
C15_Testigo ==
  \E r \in Reqs :
    /\ pc[r] = "done"
    /\ \E i \in 1..Len(hist[r]) :
         /\ hist[r][i].motivo = "aldea"
         /\ BuscarCarrera(CamposDe(r, i).ncarrera) = None
    /\ aldeas = AldeasIniciales /\ carreras = CarrerasIniciales
    /\ tramos = TramosIniciales /\ periodos = PeriodosIniciales

\* C16: every student that was in the store when a run began is in it,
\* field for field, while the run goes on and when it has ended.
C16_PreviosIntactos ==
  \A r \in Reqs :
    /\ pc[r] = "filas" => antes[r] \subseteq estudiantes
    /\ pc[r] = "done" => antes[r] \subseteq despues[r] /\ antes[r] \subseteq estudiantes

\* C16 witness: a run that began with a student in the store has committed
\* another one.
C16_Testigo ==
  \E r \in Reqs :
    /\ pc[r] = "done" /\ commit[r] = "ok"
    /\ antes[r] # {} /\ staged[r] # {}
    /\ despues[r] = antes[r] \cup staged[r]

\* C17: a run that has recorded diagnostics shows them when it ends, the
\* first 10 at least, whether or not its commit raised.
C17_DiagnosticosEnElInforme ==
  \A r \in Reqs :
    (pc[r] = "done" /\ errores[r] # << >>) =>
      \E a \in Avisos(r) :
        /\ flashes[r][a].total = Len(errores[r])
        /\ \A i \in 1..Len(errores[r]) :
             i <= 10 => /\ i <= Len(flashes[r][a].lista)
                        /\ flashes[r][a].lista[i] = errores[r][i]

\* the optional columns of section 4.1
Opcionales ==
  { "TIPO_DOC", "NOMBRE_APELLIDO", "GENERO", "FECHA_NACIMIENTO", "TELEFONO", "CORREO" }

\* the call read a file without any optional column whose rows all pass the
\* checks, with document numbers new to the store and distinct
SoloRequeridas(r) ==
  /\ Len(df[r].rows) > 0
  /\ \A name \in Opcionales : ~HasCol(df[r], name)
  /\ \A i \in 1..Len(df[r].rows) :
       /\ PrimerFallo(CamposDe(r, i)) = "ninguno"
       /\ CamposDe(r, i).ndoc \notin Numeros(antes[r])
       /\ \A j \in 1..Len(df[r].rows) :
            CamposDe(r, j).ndoc = CamposDe(r, i).ndoc => j = i

\* C18: unless the storage itself fails, a run of such a file commits a
\* student for every row and reports them all as successes.
C18_ColumnasOpcionales ==
  \A r \in Reqs :
    (pc[r] = "done" /\ SoloRequeridas(r) /\ commit[r] # "caida") =>
      /\ commit[r] = "ok"
      /\ flashes[r] = << Exito(Len(df[r].rows)) >>
      /\ Cardinality(despues[r] \ antes[r]) = Len(df[r].rows)
      /\ \A i \in 1..Len(df[r].rows) :
           \E e \in despues[r] : DeLaFila(e, CamposDe(r, i))

\* C19: the document type of every visited row is "V" when the file has no
\* TIPO_DOC column or the row's cell is empty or blank, and the cell's text,
\* trimmed and upper-cased, otherwise.
C19_TipoPorDefecto ==
  \A r \in Reqs : \A i \in 1..Len(hist[r]) :
    LET cell == Get(df[r], df[r].rows[i], "TIPO_DOC", "")
    IN CamposDe(r, i).tipo_doc =
         IF ~HasCol(df[r], "TIPO_DOC") \/ CeldaVacia(cell) THEN "V"
         ELSE Upper(Strip(PyStr(cell)))

\* the upload with its header names written trimmed and in capitals: the one
\* file all uploads that differ from it in header case or blanks share
Gemelo(up) ==
  [ up EXCEPT !.columns = [ j \in 1..Len(up.columns) |-> Canon(up.columns[j]) ] ]

\* C20: a call treats its upload as it treats the same file with the header
\* names trimmed and in capitals: the file checks give the same verdict and
\* flash, the loop runs on the same frame and reads the same fields from the
\* row it has just visited (so from every row, each being once the last);
\* so two uploads that differ only in header case or blanks have the same
\* outcomes.
C20_CabecerasInsensibles ==
  \A r \in DOMAIN archivo :
    pc[r] # "idle" =>
      LET up == archivo[r]
          tw == Gemelo(up)
          et == ErrorDeArchivo(tw)
          n == Len(hist[r])
      IN /\ ErrorDeArchivo(up) = et
         /\ (pc[r] = "filas") = (et = None /\ pc[r] # "done")
         /\ (pc[r] = "done" /\ et # None) => flashes[r] = et /\ n = 0
         /\ et = None =>
              /\ df[r] = [ columns |-> tw.columns, rows |-> tw.rows ]
              /\ n > 0 => CamposDe(r, n) = Campos([ columns |-> tw.columns,
                                                    rows |-> tw.rows ], tw.rows[n])

\* C20 witness: a run on a file whose header is written in lower case and
\* with blanks has committed a student.
C20_Testigo ==
  \E r \in DOMAIN archivo :
    /\ pc[r] = "done" /\ commit[r] = "ok" /\ staged[r] # {}
    /\ \E j \in 1..Len(archivo[r].columns) :
         /\ archivo[r].columns[j] # Canon(archivo[r].columns[j])
         /\ Canon(archivo[r].columns[j]) = "NUMERO_DOC"

\* the catalog has an entry whose key is exactly the text
HayAldea(t) == \E a \in aldeas : a.codigo = t
HayCarrera(t) == \E k \in carreras : k.nombre = t
HayTramo(t) == \E x \in tramos : x.nombre = t
HayPeriodo(t) == \E p \in periodos : p.nombre = t

\* C21: a lookup a row runs resolves exactly when the catalog holds an entry
\* whose code or name equals the row's trimmed, upper-cased value: the row
\* is rejected at a lookup if and only if no entry equals its key there, and
\* it runs the next lookup only after the key before resolved.
C21_ConsultaExacta ==
  \A r \in Reqs : \A i \in 1..Len(hist[r]) :
    LET c == CamposDe(r, i)
        m == hist[r][i].motivo
        q == hist[r][i].consultas
    IN m \notin { "faltan", "interno" } =>
         /\ (m = "aldea") = ~HayAldea(c.caldea)
         /\ Len(q) >= 2 => HayAldea(c.caldea) /\ ((m = "carrera") = ~HayCarrera(c.ncarrera))
         /\ Len(q) >= 3 => HayCarrera(c.ncarrera) /\ ((m = "tramo") = ~HayTramo(c.ntramo))
         /\ Len(q) >= 4 => HayTramo(c.ntramo) /\ ((m = "periodo") = ~HayPeriodo(c.nperiodo))
         /\ Len(q) >= 5 => HayPeriodo(c.nperiodo)

\* C21 witness: a run has rejected four rows, each at the one lookup where
\* its key is only a part or an extension of a catalog key, and accepted a
\* row whose keys differ from the catalog's in case and blanks alone.
C21_Testigo ==
  \E r \in Reqs :
    /\ Len(hist[r]) = 5
    /\ hist[r][1].motivo = "aldea" /\ CamposDe(r, 1).caldea = "A00"
    /\ hist[r][2].motivo = "carrera" /\ CamposDe(r, 2).ncarrera = "INFORMATIC"
    /\ hist[r][3].motivo = "tramo" /\ CamposDe(r, 3).ntramo = "TRAYECTO"
    /\ hist[r][4].motivo = "periodo" /\ CamposDe(r, 4).nperiodo = "2025-I-B"
    /\ hist[r][5].motivo = "ok"

\* the NUMERO_DOC cell of the i-th data row of r's file
CeldaDoc(r, i) == Get(df[r], df[r].rows[i], "NUMERO_DOC", "")

\* the position of the first '.' of a text, one past its end when it has none
PrimerPunto(t) ==
  IF \E k \in 1..Len(t) : SubSeq(t, k, k) = "."
  THEN CHOOSE k \in 1..Len(t) :
         /\ SubSeq(t, k, k) = "."
         /\ \A j \in 1..(k - 1) : SubSeq(t, j, j) # "."
  ELSE Len(t) + 1

\* C22: the document number of a row is the text of its cell up to the first
\* '.', trimmed: it has no '.', no blank at either end, and normalizing it
\* again returns it unchanged; a float cell and the integer or text cell of
\* the same digits give one number, so that once the row of one of them is
\* accepted the duplicate check rejects the row of the other with that type.
C22_NumeroNormalizado ==
  \A r \in Reqs : \A i \in 1..Len(hist[r]) :
    LET t == PyStr(CeldaDoc(r, i))
        n == CamposDe(r, i).ndoc
    IN /\ n = Strip(SubSeq(t, 1, PrimerPunto(t) - 1))
       /\ \A k \in 1..Len(n) : SubSeq(n, k, k) # "."
       /\ n # "" => SubSeq(n, 1, 1) # " " /\ SubSeq(n, Len(n), Len(n)) # " "
       /\ Ndoc([ columns |-> << "NUMERO_DOC" >> ], << S(n) >>) = n
       /\ \A j \in 1..(i - 1) :
            ( /\ { CeldaDoc(r, i).t, CeldaDoc(r, j).t } \in
                   { { "float", "int" }, { "float", "str" } }
              /\ CeldaDoc(r, i).v = CeldaDoc(r, j).v
              /\ CeldaDoc(r, i).v = n )
            => /\ CamposDe(r, j).ndoc = n
               /\ ( /\ hist[r][j].motivo = "ok"
                    /\ CamposDe(r, j).tipo_doc = CamposDe(r, i).tipo_doc
                    /\ Len(hist[r][i].consultas) = 5 )
                  => hist[r][i].motivo = "existe"

\* C22 witness: a run accepted the row of the integer 12345678, rejected as
\* already existing the row of the float 12345678.0, accepted the row of
\* " 12.345.678 " under the number "12", rejected "12 .5" as that same
\* number, and found the number of ".5" empty.
C22_Testigo ==
  \E r \in Reqs :
    /\ Len(hist[r]) = 5
    /\ CeldaDoc(r, 1) = N("12345678") /\ hist[r][1].motivo = "ok"
    /\ CeldaDoc(r, 2) = F("12345678") /\ hist[r][2].motivo = "existe"
    /\ CeldaDoc(r, 3) = S(" 12.345.678 ") /\ hist[r][3].motivo = "ok"
    /\ \E e \in staged[r] : e.numero_documento = "12"
    /\ CeldaDoc(r, 4) = S("12 .5") /\ hist[r][4].motivo = "existe"
    /\ CeldaDoc(r, 5) = S(".5") /\ hist[r][5].motivo = "faltan"

\* the FECHA_NACIMIENTO cell of the i-th data row of r's file
CeldaFecha(r, i) == Get(df[r], df[r].rows[i], "FECHA_NACIMIENTO", "")

\* a birth date as the table stores it: absent, or a calendar date yyyy-mm-dd
FechaGuardable(f) ==
  \/ f = None
  \/ /\ Len(f[1]) = 10
     /\ \A k \in { 1, 2, 3, 4, 6, 7, 9, 10 } : SubSeq(f[1], k, k) \in Digits

\* C23: the birth-date cell never costs a row: every student a run stages
\* carries a birth date that is absent or a calendar date, and no row is
\* answered with an internal error, nor the commit refused, because of the
\* birth date of a staged student.
C23_FechaNoRechaza ==
  \A r \in Reqs :
    /\ \A e \in staged[r] : FechaGuardable(e.fecha_nacimiento)
    /\ \A i \in 1..Len(hist[r]) :
         hist[r][i].motivo = "interno" =>
           \E e \in staged[r] :
             \/ e.nombre_apellido = None
             \/ Choca(e, estudiantes \cup (staged[r] \ { e }))
             \/ Len(e.tipo_documento) > 1

\* the success flashes of r's report
Exitos(r) == { k \in 1..Len(flashes[r]) : flashes[r][k].cat = "success" }

\* C24 as stated: a finished run issued a commit, and reported a success,
\* exactly when it staged at least one row.
C24_Original ==
  \A r \in Reqs :
    pc[r] = "done" =>
      /\ (commit[r] # "no") <=> (exitos[r] > 0)
      /\ (Exitos(r) # {}) <=> (exitos[r] > 0)

\* C24: a finished run issued a commit exactly when it staged at least one
\* row, and reported a success exactly when it staged at least one row and
\* the commit did not raise; a run that staged nothing issued no commit,
\* reported no success and left the store as it found it.
C24_CommitSiHayExitos ==
  \A r \in Reqs :
    pc[r] = "done" =>
      /\ (commit[r] # "no") <=> (exitos[r] > 0)
      /\ (Exitos(r) # {}) <=> (exitos[r] > 0 /\ commit[r] = "ok")
      /\ exitos[r] = 0 =>
           /\ staged[r] = {} /\ commit[r] = "no" /\ Exitos(r) = {}
           /\ despues[r] = antes[r]

\* C24 witness: a run visited every row of a file with data rows, rejected
\* them all, and ended with no commit and the warning as its only flash.
C24_Testigo ==
  \E r \in Reqs :
    /\ pc[r] = "done"
    /\ Len(df[r].rows) >= 1 /\ Len(hist[r]) = Len(df[r].rows)
    /\ exitos[r] = 0 /\ Len(errores[r]) = Len(df[r].rows)
    /\ commit[r] = "no"
    /\ Len(flashes[r]) = 1 /\ flashes[r][1].cat = "warning"
    /\ despues[r] = antes[r]

\* the students of a set that carry the number, and the number and type, of c
ConNumero(filas, c) == { e \in filas : e.numero_documento = c.ndoc }
ConNumeroYTipo(filas, c) == { e \in ConNumero(filas, c) : e.tipo_documento = c.tipo_doc }

\* C25: a row is rejected as already existing only when a student stored or
\* staged before it carries both its document number and its document
\* type; a row that reached the duplicate check while the only students
\* with its number carried another type was not rejected by it and was
\* staged.
C25_DuplicadoPorNumeroYTipo ==
  \A r \in Reqs : \A i \in 1..Len(hist[r]) :
    LET c == CamposDe(r, i)
        antesDeLaFila == estudiantes \cup { e \in staged[r] : i \notin Aceptadas(r) }
    IN /\ hist[r][i].motivo = "existe" => ConNumeroYTipo(antesDeLaFila, c) # {}
       /\ ( /\ Len(hist[r][i].consultas) = 5
            /\ ConNumeroYTipo(estudiantes \cup staged[r], c) \subseteq
                 { e \in staged[r] : i \in Aceptadas(r) } )
          => hist[r][i].motivo = "ok"

\* C25 witness: a run staged a row although a student with the row's number
\* and another document type was already stored.
C25_Testigo ==
  \E r \in Reqs : \E i \in Aceptadas(r) :
    LET c == CamposDe(r, i)
    IN /\ pc[r] = "filas"
       /\ ConNumero(antes[r], c) # {}
       /\ ConNumeroYTipo(antes[r], c) = {}
       /\ \E e \in staged[r] : e.numero_documento = c.ndoc /\ e.tipo_documento = c.tipo_doc

\* the accounts of the loop of r after idx[r] rows: one entry of the history
\* per visited row, each either accepted with no diagnostic or rejected with
\* exactly one, and the counts add up
CuentasDelBucle(r) ==
  /\ idx[r] <= Len(df[r].rows) /\ Len(hist[r]) = idx[r]
  /\ exitos[r] = Cardinality(Aceptadas(r)) /\ exitos[r] = Cardinality(staged[r])
  /\ exitos[r] + Len(errores[r]) = idx[r]
  /\ \A i \in 1..idx[r] :
       IF i \in Aceptadas(r) THEN DiagnosticosDe(r, i) = {}
       ELSE Cardinality(DiagnosticosDe(r, i)) = 1
  /\ pc[r] = "done" => idx[r] = Len(df[r].rows)

\* C26: a run visits the data rows one at a time in file order, each row
\* once, and every visited row is either staged or given exactly one
\* diagnostic, never both, so that when the loop ends the successes plus the
\* diagnostics equal the number of data rows; and every run that began ends,
\* having visited every row.
C26_CadaFilaUnaVez ==
  /\ [](\A r \in Reqs : CuentasDelBucle(r))
  /\ [][ \A r \in Reqs :
           (pc[r] = "filas" /\ hist'[r] # hist[r]) =>
             /\ idx'[r] = idx[r] + 1
             /\ SubSeq(hist'[r], 1, idx[r]) = hist[r]
             /\ SubSeq(errores'[r], 1, Len(errores[r])) = errores[r]
             /\ \A k \in (Len(errores[r]) + 1)..Len(errores'[r]) :
                  errores'[r][k].linea = idx[r] + 2 ]_vars
  /\ \A r \in Reqs :
       (pc[r] = "filas") ~> (pc[r] = "done" /\ Len(hist[r]) = Len(df[r].rows))

\* C26 witness: a run ended after visiting the five rows of a file, of
\* which it staged some and rejected the others.
C26_Testigo ==
  \E r \in Reqs :
    /\ pc[r] = "done" /\ Len(df[r].rows) = 5 /\ Len(hist[r]) = 5
    /\ exitos[r] >= 1 /\ Len(errores[r]) >= 1
    /\ exitos[r] + Len(errores[r]) = 5

\* rows i < j of r's file carry one document type and number, pass every
\* check on the row and the catalogs, have a name and a birth date the table
\* can store, and no student with that type and number was in the store
\* when the run began, nor in an earlier row
RepetidaEnElArchivo(r, i, j) ==
  LET ci == CamposDe(r, i)
      cj == CamposDe(r, j)
  IN /\ i < j
     /\ ci.ndoc = cj.ndoc /\ ci.tipo_doc = cj.tipo_doc
     /\ PrimerFallo(ci) = "ninguno" /\ PrimerFallo(cj) = "ninguno"
     /\ ci.nombre # "" /\ cj.nombre # ""
     /\ FechaGuardable(ci.fecha_nac) /\ FechaGuardable(cj.fecha_nac)
     /\ Len(ci.tipo_doc) <= 1 /\ Len(ci.ndoc) <= 15
     /\ ConNumeroYTipo(antes[r], ci) = {}
     /\ \A k \in 1..(i - 1) :
          CamposDe(r, k).ndoc # ci.ndoc \/ CamposDe(r, k).tipo_doc # ci.tipo_doc

\* C27: of two such rows of one file the earlier is staged and the later is
\* rejected as already existing, and unless the storage fails at the commit
\* the run commits, leaving exactly one student with that number.
C27_RepetidaEnElArchivo ==
  \A r \in Reqs : \A j \in 1..Len(hist[r]) : \A i \in 1..(j - 1) :
    RepetidaEnElArchivo(r, i, j) =>
      /\ hist[r][i].motivo = "ok"
      /\ hist[r][j].motivo = "existe"
      /\ (pc[r] = "done" /\ commit[r] # "caida") =>
           /\ commit[r] = "ok"
           /\ Cardinality(ConNumero(despues[r], CamposDe(r, i))) = 1

\* the catalog records the foreign keys of a student name
TieneTramo(e) == \E t \in tramos : t.id = e.tramo_id
TienePeriodo(e) == \E x \in periodos : x.id = e.periodo_id
TieneAldea(e) == \E a \in aldeas : a.id = e.aldea_id

\* C28: while imports and deletions of stages, periods and villages are
\* served one request at a time, the stage, the period and the village of
\* every stored student are records of the catalogs; no step removes a
\* record a stored student names: the deletion of a record a stored student
\* names is answered "in use" and leaves the catalogs as they were.
C28_ReferenciasVivas ==
  /\ [](\A e \in estudiantes : TieneTramo(e) /\ TienePeriodo(e) /\ TieneAldea(e))
  /\ [](gestion.res = "en uso" =>
          \/ gestion.op = "tramo" /\ \E t \in tramos : t.id = gestion.id
          \/ gestion.op = "periodo" /\ \E x \in periodos : x.id = gestion.id
          \/ gestion.op = "aldea" /\ \E a \in aldeas : a.id = gestion.id)
  /\ [][ /\ \A t \in tramos \ tramos' : \A e \in estudiantes : e.tramo_id # t.id
         /\ \A x \in periodos \ periodos' : \A e \in estudiantes : e.periodo_id # x.id
         /\ \A a \in aldeas \ aldeas' : \A e \in estudiantes : e.aldea_id # a.id
         /\ gestion' # gestion =>
              \A e \in estudiantes :
                ( \/ gestion'.op = "tramo" /\ e.tramo_id = gestion'.id
                  \/ gestion'.op = "periodo" /\ e.periodo_id = gestion'.id
                  \/ gestion'.op = "aldea" /\ e.aldea_id = gestion'.id )
                => gestion'.res = "en uso" /\ UNCHANGED catalogos ]_vars

\* C28 witness: with students imported, the stage no student names has
\* been deleted and the deletion of the stage they name was refused.
C28_Testigo ==
  /\ estudiantes # {}
  /\ gestion = [ op |-> "tramo", id |-> 1, res |-> "en uso" ]
  /\ \A e \in estudiantes : e.tramo_id = 1
  /\ { t.id : t \in tramos } = { 1 }

\* the session of r has no user_id, or its role is not SUPER_USUARIO
SinPermiso(r) == ~sesion[r].user_id \/ sesion[r].rol # Some("SUPER_USUARIO")

\* C29: a client whose session has no user_id, or a role other than
\* SUPER_USUARIO, never gets into the handler: its requests read no file,
\* visit no row, run no lookup and stage nothing, each leaves the students
\* and the catalogs as they were, and each is sent to the login page when
\* the session has no user_id and to the index otherwise.
C29_SoloSuperUsuario ==
  /\ [](\A r \in Reqs : SinPermiso(r) =>
          /\ pc[r] = "idle" /\ df[r] = SinDatos /\ idx[r] = 0
          /\ hist[r] = << >> /\ errores[r] = << >> /\ exitos[r] = 0
          /\ staged[r] = {} /\ new[r] = {} /\ flushed[r] = {}
          /\ commit[r] = "no"
          /\ acceso[r] \in { "", IF sesion[r].user_id THEN "index" ELSE "login" })
  /\ [][ \A r \in Reqs : (SinPermiso(r) /\ posts'[r] # posts[r]) =>
           /\ estudiantes' = estudiantes /\ UNCHANGED catalogos
           /\ acceso'[r] = IF sesion[r].user_id THEN "index" ELSE "login" ]_vars

\* C29 witness: a coordinator has posted an upload twice and was sent to
\* the index both times, with nothing read and nothing stored.
C29_Testigo ==
  \E r \in Reqs :
    /\ sesion[r] = Sesion(TRUE, Some("COORDINADOR"))
    /\ r \in DOMAIN archivo /\ Len(archivo[r].rows) >= 1
    /\ posts[r] = 0 /\ acceso[r] = "index" /\ flashes[r] = << Denegado >>
    /\ pc[r] = "idle" /\ hist[r] = << >> /\ estudiantes = {}

====
